---- MODULE Spec2Model ----
(***************************************************************************)
(* A model of neat-catch (src/index.ts): neatCatch, neatCatchAll and       *)
(* neatCatchRetry together with the shared transformError helper.          *)
(*                                                                         *)
(* JavaScript values are records [type, val, ...]; the call of a function  *)
(* yields a completion record, Normal(v) or Throw(v), as in ECMAScript.    *)
(* A promise is a value of type "Promise" that carries its fate (the way   *)
(* it will settle) so that the callbacks chained on it can be run when it  *)
(* settles.                                                                *)
(***************************************************************************)
EXTENDS Integers, Sequences, FiniteSets, TLC

VARIABLES
    fn,                \* neatCatch: the completion of calling the operation fn()
    errorTransformer,  \* neatCatch / neatCatchAll: the errorTransformer argument
    ncPc,              \* neatCatch: "idle", "ready", "returned", "pending", "fulfilled", "rejected", "thrown"
    ncResult,          \* neatCatch: the value fn() returned (line 22), NoValue before the call
    ncOutcome,         \* neatCatch: the tuple returned or the chained promise fulfilled with
    ncFnCalls,         \* neatCatch: number of invocations of fn
    ncTransformerCalls, \* neatCatch: number of invocations of errorTransformer
    operations,        \* neatCatchAll: index -> the completion of calling operations[index]()
    allPc,             \* neatCatchAll: "idle", "mapping", "awaiting", "fulfilled", "rejected"
    started,           \* neatCatchAll: the indices of the operations invoked so far, in order
    promises,          \* neatCatchAll: index -> what neatCatch(op) returned (the array given to allSettled)
    settled,           \* neatCatchAll: index -> the PromiseSettledResult, status "pending" until settled
    settleOrder,       \* neatCatchAll: the indices in the order in which they settled
    allReturn,         \* neatCatchAll: the value { results, errors } the call fulfilled with
    allTransformerCalls, \* neatCatchAll: index -> number of invocations of errorTransformer for that operation
    options,           \* neatCatchRetry: the options argument, a record of the fields supplied
    retryPc,           \* neatCatchRetry: "idle", "ready", "awaitingFn", "waiting", "timerFired", "fulfilled", "rejected"
    attempt,           \* neatCatchRetry: the loop variable (1-based)
    retryFnCalls,      \* neatCatchRetry: number of invocations of fn
    history,           \* neatCatchRetry: how each settled attempt ended (the completion of fn)
    shouldRetryCalls,  \* neatCatchRetry: the arguments of every call of shouldRetry
    transformerCalls,  \* neatCatchRetry: the arguments of every call of options.errorTransformer
    waits,             \* neatCatchRetry: the delay of every setTimeout, in order
    logs,              \* neatCatchRetry: number of console.log calls
    timersFired,       \* neatCatchRetry: number of setTimeout timers that have fired
    retryOutcome,      \* neatCatchRetry: the tuple fulfilled with, or the rejection reason
    wrapped,           \* createNeatWrapper: the closed-over fn, argument list -> the completion of fn(...args)
    wrapperCalls,      \* createNeatWrapper: one record per call of the returned function
    fnInvocations      \* createNeatWrapper: the argument list of every invocation of fn, in order

\* The variables of each operation (errorTransformer is shared).
ncVars == <<fn, ncPc, ncResult, ncOutcome, ncFnCalls, ncTransformerCalls>>
allVars ==
    <<operations, allPc, started, promises, settled, settleOrder, allReturn, allTransformerCalls>>

retryVars ==
    <<options, retryPc, attempt, retryFnCalls, history, shouldRetryCalls, transformerCalls,
      waits, logs, timersFired, retryOutcome>>

wrapperVars == <<wrapped, wrapperCalls, fnInvocations>>

vars == <<errorTransformer, ncVars, allVars, retryVars, wrapperVars>>

-----------------------------------------------------------------------------
(* JavaScript values *)

NULL == [type |-> "null", val |-> "null"]
UNDEFINED == [type |-> "undefined", val |-> "undefined"]
ZERO == [type |-> "number", val |-> "0"]
FALSE_VALUE == [type |-> "boolean", val |-> "false"]
EMPTY_STRING == [type |-> "string", val |-> ""]
StringValue(s) == [type |-> "string", val |-> s]
ErrorValue(m) == [type |-> "Error", val |-> m]
ObjectValue(s) == [type |-> "object", val |-> s]

\* A marker of the model for "no value yet"; never a JavaScript value.
NoValue == [type |-> "none", val |-> "none"]

\* A test against undefined only, in place of truthiness.
NotUndefined(v) == v # UNDEFINED

\* The values that JavaScript's ToBoolean maps to false: `if (error)`, `!error`.
Falsy == {NULL, UNDEFINED, ZERO, FALSE_VALUE, EMPTY_STRING}

ToBoolean(v) == v \notin Falsy

\* What an operation can throw or reject with.
FailureValues ==
    {ErrorValue("boom"), StringValue("string error"), ObjectValue("{code:500}"),
     NULL, UNDEFINED, ZERO, FALSE_VALUE, EMPTY_STRING}

\* What an operation can return or resolve with (null and undefined are
\* legitimate success values).
SuccessValues == {StringValue("success"), ObjectValue("{id:1}"), NULL, UNDEFINED, ZERO}

\* The two-element array [data, error] every operation returns.
Tuple(data, error) == [type |-> "Array", val |-> "tuple", data |-> data, error |-> error]

(* Completion records *)
Normal(v) == [type |-> "normal", value |-> v]
Throw(v) == [type |-> "throw", value |-> v]

(* Promises: a native promise that will fulfil with / reject with a value. *)
PromiseOf(fate, v) == [type |-> "Promise", val |-> "promise", fate |-> fate, with |-> v]

\* A promise-like object of another library: callable then and catch.
ThenableOf(fate, v) ==
    [type |-> "object", val |-> "thenable", then |-> "function", catch |-> "function",
     fate |-> fate, with |-> v]

\* An object with a callable then and no catch.
ThenOnlyObject == [type |-> "object", val |-> "then-only", then |-> "function"]

\* The ways one call of an operation can end: it throws synchronously, returns
\* a plain value, or returns a promise (or thenable) that later fulfils or
\* rejects.
FnBehaviours ==
    {Throw(e) : e \in FailureValues}
    \cup {Normal(v) : v \in SuccessValues \cup {ThenOnlyObject}}
    \cup {Normal(PromiseOf("fulfil", v)) : v \in SuccessValues}
    \cup {Normal(PromiseOf("reject", e)) : e \in FailureValues}
    \cup {Normal(ThenableOf("fulfil", StringValue("success"))),
          Normal(ThenableOf("reject", ErrorValue("boom")))}

\* Whether a value is a promise or thenable that will settle.
Settles(v) == "fate" \in DOMAIN v

\* Whether a call of the operation ends in failure, and the value it ends with.
FnFails(c) == c.type = "throw" \/ (Settles(c.value) /\ c.value.fate = "reject")
FnSucceeds(c) == ~FnFails(c)
FnValue(c) == IF c.type = "normal" /\ Settles(c.value) THEN c.value.with ELSE c.value

-----------------------------------------------------------------------------
(* Error transformers: the optional (error) => E argument.  "none" is the  *)
(* absent argument; the others are transformers of the repository and of   *)
(* its tests.                                                              *)

\* A transformer is a record [name, ...]; [name |-> "none"] is the absent
\* (undefined) argument.
Transformer(name) == [name |-> name]
NoTransformer == Transformer("none")

Transformers ==
    {NoTransformer, Transformer("toString"), Transformer("withContext"),
     Transformer("toUndefined"), Transformer("throws")}

TransformerFailure == ErrorValue("transformer error")

\* String(error) for the primitive values of the model.
String(error) == StringValue(error.val)

\* errorTransformers.toString
toString(error) ==
    IF error.type = "Error" THEN StringValue(error.val)
    ELSE IF error.type = "string" THEN error
    ELSE IF error.type = "object" THEN StringValue("[object Object]")
    ELSE String(error)

\* errorTransformers.withContext(context)
withContext(error) == [type |-> "object", val |-> "context", error |-> error]

\* The completion of transformer(error), for a supplied transformer.
ApplyTransformer(transformer, error) ==
    CASE transformer.name = "toString" -> Normal(toString(error))
      [] transformer.name = "withContext" -> Normal(withContext(error))
      [] transformer.name = "toUndefined" -> Normal(UNDEFINED)
      [] transformer.name = "throws" -> Throw(TransformerFailure)
      [] transformer.name = "withAttempt" ->
            Normal([type |-> "string", val |-> "Attempt", attempt |-> transformer.attempt,
                    error |-> error])

AggregateError(errors) ==
    [type |-> "AggregateError",
     val |-> "Error transforming error. Both errors are in the 'errors' property.",
     errors |-> errors]

\* transformError without its try/catch: the transformer's failure escapes.
transformErrorUncaught(error, transformer) ==
    IF transformer.name = "none"
    THEN Normal(error)
    ELSE ApplyTransformer(transformer, error)

\* transformError bundling the transformer's failure before the original one.
transformErrorSwapped(error, transformer) ==
    IF transformer.name = "none"
    THEN Normal(error)
    ELSE LET c == ApplyTransformer(transformer, error) IN
         IF c.type = "normal"
         THEN c
         ELSE Normal(AggregateError(<<c.value, error>>))

\* transformError: the transformer's failure is caught and bundled.
transformError(error, transformer) ==
    IF transformer.name = "none"
    THEN Normal(error)
    ELSE LET c == ApplyTransformer(transformer, error) IN
         IF c.type = "normal"
         THEN c
         ELSE Normal(AggregateError(<<error, c.value>>))

\* A transformError that calls the transformer a second time.
transformErrorCallsTwice(transformer) == IF transformer.name = "none" THEN 0 ELSE 2

\* Number of invocations of the transformer one transformError makes.
transformErrorCalls(transformer) == IF transformer.name = "none" THEN 0 ELSE 1

-----------------------------------------------------------------------------
(* neatCatch *)

\* A handleError that throws the failure again.
handleErrorRethrows(error, transformer) == Throw(error)

\* A handleError that puts the error in the data slot.
handleErrorAsData(error, transformer) ==
    LET c == transformError(error, transformer) IN
    IF c.type = "throw" THEN c ELSE Normal(Tuple(c.value, NULL))

\* A handleError that also keeps the raw failure in the data slot.
handleErrorKeepsRaw(error, transformer) ==
    LET c == transformError(error, transformer) IN
    IF c.type = "throw" THEN c ELSE Normal(Tuple(error, c.value))

\* handleError (lines 16-19): the failure tuple [null, transformError(error)].
handleError(error, transformer) ==
    LET c == transformError(error, transformer) IN
    IF c.type = "throw" THEN c ELSE Normal(Tuple(NULL, c.value))

\* An awaitable test that asks for a callable then only.
IsThenable(result) ==
    \/ result.type = "Promise"
    \/ /\ result \notin {NULL, UNDEFINED}
       /\ result.type \in {"object", "function"}
       /\ "then" \in DOMAIN result /\ result.then = "function"

\* An awaitable test that accepts native promises only.
IsNativePromise(result) == result.type = "Promise"

\* The awaitable test of lines 24-30.
IsAwaitable(result) ==
    \/ result.type = "Promise"
    \/ /\ result \notin {NULL, UNDEFINED}
       /\ result.type \in {"object", "function"}
       /\ "then" \in DOMAIN result /\ result.then = "function"
       /\ "catch" \in DOMAIN result /\ result.catch = "function"

\* The callback of .then (line 32).
onFulfilled(data) == Normal(Tuple(data, NULL))

\* The synchronous part of neatCatch (lines 21-39): the completion of the
\* call.  For an awaitable result the value is the chained promise
\* result.then(...).catch(handleError), still pending: [type |-> "Promise",
\* fate |-> "pending", with |-> result].
neatCatchSync(fnCompletion, transformer) ==
    IF fnCompletion.type = "throw"
    THEN handleError(fnCompletion.value, transformer)
    ELSE IF IsAwaitable(fnCompletion.value)
         THEN Normal(PromiseOf("pending", fnCompletion.value))
         ELSE Normal(Tuple(fnCompletion.value, NULL))

\* The settlement of the chained promise once `result` has settled (lines
\* 31-33): Normal(tuple) is fulfilment with the tuple, Throw(e) rejection.
neatCatchSettle(result, transformer) ==
    IF result.fate = "fulfil"
    THEN onFulfilled(result.with)
    ELSE handleError(result.with, transformer)

\* Whether the value neatCatch returned is a pending chained promise.
IsPending(x) == x.type = "Promise" /\ x.fate = "pending"

\* neatCatch is not running (the variables of a specification of another operation).
NeatCatchIdle ==
    /\ fn = Normal(UNDEFINED)
    /\ ncPc = "idle"
    /\ ncResult = NoValue
    /\ ncOutcome = NoValue
    /\ ncFnCalls = 0
    /\ ncTransformerCalls = 0

NeatCatchReady ==
    /\ fn \in FnBehaviours
    /\ errorTransformer \in Transformers
    /\ ncPc = "ready"
    /\ ncResult = NoValue
    /\ ncOutcome = NoValue
    /\ ncFnCalls = 0
    /\ ncTransformerCalls = 0

\* The call neatCatch(fn, errorTransformer) up to its return.
NeatCatchCall ==
    /\ ncPc = "ready"
    /\ LET c == neatCatchSync(fn, errorTransformer) IN
       /\ ncFnCalls' = ncFnCalls + 1
       /\ ncResult' = IF fn.type = "normal" THEN fn.value ELSE NoValue
       /\ ncTransformerCalls' =
            ncTransformerCalls
            + (IF fn.type = "throw" THEN transformErrorCalls(errorTransformer) ELSE 0)
       /\ IF c.type = "throw"
          THEN ncPc' = "thrown" /\ ncOutcome' = c.value
          ELSE IF IsPending(c.value)
               THEN ncPc' = "pending" /\ UNCHANGED ncOutcome
               ELSE ncPc' = "returned" /\ ncOutcome' = c.value
    /\ UNCHANGED <<fn, errorTransformer, allVars, retryVars, wrapperVars>>

\* The promise fn returned settles and the callbacks chained on it run.
NeatCatchSettle ==
    /\ ncPc = "pending"
    /\ LET c == neatCatchSettle(ncResult, errorTransformer) IN
       /\ ncTransformerCalls' =
            ncTransformerCalls
            + (IF ncResult.fate = "reject" THEN transformErrorCalls(errorTransformer) ELSE 0)
       /\ IF c.type = "throw"
          THEN ncPc' = "rejected" /\ ncOutcome' = c.value
          ELSE ncPc' = "fulfilled" /\ ncOutcome' = c.value
    /\ UNCHANGED <<fn, errorTransformer, ncResult, ncFnCalls, allVars, retryVars, wrapperVars>>

-----------------------------------------------------------------------------
(* neatCatchAll *)

\* The largest number of operations in one neatCatchAll call.
MaxOperations == 3

\* How an operation given to neatCatchAll can end.
OperationBehaviours ==
    {Normal(PromiseOf("fulfil", StringValue("success"))),
     Normal(PromiseOf("fulfil", NULL)),
     Normal(PromiseOf("reject", ErrorValue("boom"))),
     Normal(PromiseOf("reject", NULL)),
     Throw(StringValue("string error"))}

\* JavaScript arrays: the elements are a function from the populated indices
\* (0-based) to values; an index outside its domain is a hole.
ArrayOf(elems) == [type |-> "Array", val |-> "array", elems |-> elems]
EmptyArray == <<>>

Max(S) == CHOOSE x \in S : \A y \in S : y <= x

\* array.length
Length(elems) == IF DOMAIN elems = {} THEN 0 ELSE Max(DOMAIN elems) + 1

\* array.push(value) in place of array[index] = value.
Push(elems, index, value) == (Length(elems) :> value) @@ elems

\* array[index] = value
SetIndex(elems, index, value) == (index :> value) @@ elems

\* An entry of the array Promise.allSettled resolves with.
SettledResult(status, value, reason) == [status |-> status, value |-> value, reason |-> reason]
PendingResult == SettledResult("pending", NoValue, NoValue)

NumOperations == Cardinality(DOMAIN operations)

\* settled.forEach (lines 93-104) from `index` on: the completion holding the
\* results and errors arrays.
RECURSIVE forEach(_, _, _, _, _)
forEach(settledArray, index, results, errors, transformer) ==
    IF index >= Cardinality(DOMAIN settledArray)
    THEN Normal([results |-> results, errors |-> errors])
    ELSE LET result == settledArray[index] IN
         IF result.status = "fulfilled"
         THEN LET data == result.value.data
                  error == result.value.error
              IN IF ToBoolean(error)
                 THEN forEach(settledArray, index + 1, results,
                              SetIndex(errors, index, error), transformer)
                 ELSE forEach(settledArray, index + 1,
                              SetIndex(results, index, data), errors, transformer)
         ELSE LET c == transformError(result.reason, transformer) IN
              IF c.type = "throw"
              THEN c
              ELSE forEach(settledArray, index + 1, results,
                           SetIndex(errors, index, c.value), transformer)

\* An assembly that transforms the error of every failed operation again.
AssemblyTransformsAgain(result, transformer) ==
    IF result.status = "rejected" \/ ToBoolean(result.value.error)
    THEN transformErrorCalls(transformer)
    ELSE 0

\* Number of invocations of the transformer forEach makes for one entry:
\* transformError is called for a rejected entry only (line 102).
AssemblyTransforms(result, transformer) ==
    IF result.status = "rejected" THEN transformErrorCalls(transformer) ELSE 0

\* A collapse to null that looks at the first slot in place of the length.
ArrayOrNullByFirstSlot(elems) == IF 0 \in DOMAIN elems THEN ArrayOf(elems) ELSE NULL

\* The array returned as it is, without the collapse to null.
ArrayAlways(elems) == ArrayOf(elems)

\* `array.length ? array : null` (lines 107-110).
ArrayOrNull(elems) == IF Length(elems) # 0 THEN ArrayOf(elems) ELSE NULL

\* The object neatCatchAll returns (lines 106-111).
AllReturnValue(results, errors) ==
    [results |-> ArrayOrNull(results), errors |-> ArrayOrNull(errors)]

\* An await inside the loop: the call suspends after the first operation.
MapFinishedEarly(startedIndices, n) == Len(startedIndices) >= 1 \/ n = 0

\* The map of line 87 is synchronous: the call suspends (awaits allSettled)
\* once neatCatch has been called on every operation.
MapFinished(startedIndices, n) == Len(startedIndices) = n

\* Promise.race in place of Promise.allSettled: the first settlement resumes the call.
AnySettled(settledArray) ==
    \/ DOMAIN settledArray = {}
    \/ \E i \in DOMAIN settledArray : settledArray[i].status # "pending"

\* Promise.allSettled fulfils once no input is pending.
AllSettled(settledArray) == \A i \in DOMAIN settledArray : settledArray[i].status # "pending"

AllIdle ==
    /\ operations = EmptyArray
    /\ allPc = "idle"
    /\ started = <<>>
    /\ promises = EmptyArray
    /\ settled = EmptyArray
    /\ settleOrder = <<>>
    /\ allReturn = NoValue
    /\ allTransformerCalls = EmptyArray

AllReady ==
    /\ \E n \in 0..MaxOperations : operations \in [0..(n - 1) -> OperationBehaviours]
    /\ errorTransformer \in Transformers
    /\ allPc = "mapping"
    /\ started = <<>>
    /\ promises = [i \in DOMAIN operations |-> NoValue]
    /\ settled = [i \in DOMAIN operations |-> PendingResult]
    /\ settleOrder = <<>>
    /\ allReturn = NoValue
    /\ allTransformerCalls = [i \in DOMAIN operations |-> 0]

\* One step of operations.map (line 87): neatCatch(op, errorTransformer) for
\* the next operation, up to its return.
AllStartOperation ==
    /\ allPc = "mapping"
    /\ ~MapFinished(started, NumOperations)
    /\ LET index == Len(started)
           c == neatCatchSync(operations[index], errorTransformer)
       IN /\ started' = Append(started, index)
          /\ allTransformerCalls' =
               [allTransformerCalls EXCEPT ![index] =
                    @ + (IF operations[index].type = "throw"
                         THEN transformErrorCalls(errorTransformer) ELSE 0)]
          /\ IF c.type = "throw"
             THEN /\ allPc' = "rejected"
                  /\ allReturn' = c.value
                  /\ UNCHANGED promises
             ELSE /\ promises' = [promises EXCEPT ![index] = c.value]
                  /\ UNCHANGED <<allPc, allReturn>>
    /\ UNCHANGED <<operations, errorTransformer, settled, settleOrder, ncVars, retryVars, wrapperVars>>

\* `await Promise.allSettled(...)` (line 86): the call suspends.
AllAwait ==
    /\ allPc = "mapping"
    /\ MapFinished(started, NumOperations)
    /\ allPc' = "awaiting"
    /\ UNCHANGED <<operations, errorTransformer, started, promises, settled, settleOrder, allReturn,
                   allTransformerCalls, ncVars, retryVars, wrapperVars>>

\* The input of allSettled at `index` settles: a tuple (neatCatch returned
\* synchronously) fulfils as it is, a chained promise settles once the
\* operation's promise has settled and its callbacks have run.
AllOperationSettles(index) ==
    /\ allPc = "awaiting"
    /\ index \in DOMAIN settled
    /\ promises[index] # NoValue
    /\ settled[index].status = "pending"
    /\ LET c == IF IsPending(promises[index])
                THEN neatCatchSettle(promises[index].with, errorTransformer)
                ELSE Normal(promises[index])
       IN settled' = [settled EXCEPT ![index] =
                        IF c.type = "normal"
                        THEN SettledResult("fulfilled", c.value, NoValue)
                        ELSE SettledResult("rejected", NoValue, c.value)]
    /\ settleOrder' = Append(settleOrder, index)
    /\ allTransformerCalls' =
         [allTransformerCalls EXCEPT ![index] =
              @ + (IF IsPending(promises[index]) /\ promises[index].with.fate = "reject"
                   THEN transformErrorCalls(errorTransformer) ELSE 0)]
    /\ UNCHANGED <<operations, errorTransformer, allPc, started, promises, allReturn, ncVars, retryVars, wrapperVars>>

\* allSettled has fulfilled: the call resumes, assembles and returns (lines 90-111).
AllResume ==
    /\ allPc = "awaiting"
    /\ AllSettled(settled)
    /\ LET c == forEach(settled, 0, EmptyArray, EmptyArray, errorTransformer) IN
       IF c.type = "throw"
       THEN allPc' = "rejected" /\ allReturn' = c.value
       ELSE /\ allPc' = "fulfilled"
            /\ allReturn' = AllReturnValue(c.value.results, c.value.errors)
    /\ allTransformerCalls' =
         [i \in DOMAIN operations |->
              allTransformerCalls[i] + AssemblyTransforms(settled[i], errorTransformer)]
    /\ UNCHANGED <<operations, errorTransformer, started, promises, settled, settleOrder, ncVars, retryVars, wrapperVars>>

-----------------------------------------------------------------------------
(* neatCatchRetry *)

\* The largest maxRetries given explicitly in the options.
MaxRetriesBound == 2

\* The defaults of the destructuring (lines 133-139).
DefaultMaxRetries == 3
DefaultDelay == 1000

\* How one attempt of fn can end.
RetryFnBehaviours ==
    {Normal(PromiseOf("fulfil", StringValue("success"))),
     Normal(PromiseOf("fulfil", NULL)),
     Normal(PromiseOf("reject", ErrorValue("retryable"))),
     Normal(PromiseOf("reject", ErrorValue("non-retryable"))),
     Normal(PromiseOf("reject", StringValue("string error"))),
     Normal(PromiseOf("reject", NULL)),
     Throw(ZERO)}

\* The records made of an optional field `name` with a value of `values`.
OptionalField(name, values) == {<<>>} \cup {(name :> v) : v \in values}

\* The options a call can be given: every field is optional.
RetryOptions ==
    {m @@ d @@ b @@ t @@ p :
        m \in OptionalField("maxRetries", (-1)..MaxRetriesBound),
        d \in OptionalField("delay", {0, 100}),
        b \in OptionalField("backoff", {"linear", "exponential"}),
        t \in OptionalField("errorTransformer", {"withAttempt", "throws"}),
        p \in OptionalField("shouldRetry", {"never", "attemptAtMost1", "retryable", "throws"})}

\* The destructuring with defaults (lines 133-139).
\* No retry unless options.maxRetries is given.
maxRetriesWithoutDefault(opts) == IF "maxRetries" \in DOMAIN opts THEN opts.maxRetries ELSE 0

maxRetriesOf(opts) == IF "maxRetries" \in DOMAIN opts THEN opts.maxRetries ELSE DefaultMaxRetries
delayOf(opts) == IF "delay" \in DOMAIN opts THEN opts.delay ELSE DefaultDelay
backoffOf(opts) == IF "backoff" \in DOMAIN opts THEN opts.backoff ELSE "exponential"
errorTransformerOf(opts) ==
    IF "errorTransformer" \in DOMAIN opts THEN Transformer(opts.errorTransformer) ELSE NoTransformer
shouldRetryOf(opts) == IF "shouldRetry" \in DOMAIN opts THEN opts.shouldRetry ELSE "default"

ShouldRetryFailure == ErrorValue("predicate error")

\* The completion of shouldRetry(error, attempt) for the predicates of the
\* model: the default () => true, and predicates of the tests.
ApplyShouldRetry(predicate, error, n) ==
    CASE predicate = "default" -> Normal(TRUE)
      [] predicate = "never" -> Normal(FALSE)
      [] predicate = "attemptAtMost1" -> Normal(n <= 1)
      [] predicate = "retryable" -> Normal(error.type = "Error" /\ error.val = "retryable")
      [] predicate = "throws" -> Throw(ShouldRetryFailure)

\* (e) => errorTransformer(e, attempt) (line 151).
WithAttempt(transformer, n) == [name |-> transformer.name, attempt |-> n]

\* `await neatCatch(fn)` (line 142): the completion of the await.
awaitNeatCatch(fnCompletion, transformer) ==
    LET c == neatCatchSync(fnCompletion, transformer) IN
    IF c.type = "normal" /\ IsPending(c.value)
    THEN neatCatchSettle(c.value.with, transformer)
    ELSE c

\* A loop that runs its body before testing the condition.
LoopConditionAfterBody(n, maxRetries) == n = 1 \/ n <= maxRetries + 1

\* A loop of maxRetries iterations.
LoopConditionShort(n, maxRetries) == n <= maxRetries

\* The loop condition (line 141).
LoopCondition(n, maxRetries) == n <= maxRetries + 1

\* The loop variable is never incremented.
SameAttempt(n) == n

\* attempt++ (line 141).
NextAttempt(n) == n + 1

\* isLastAttempt one attempt too late.
IsLastAttemptLate(n, maxRetries) == n = maxRetries + 2

\* isLastAttempt one attempt early.
IsLastAttemptEarly(n, maxRetries) == n = maxRetries

\* isLastAttempt (line 146).
IsLastAttempt(n, maxRetries) == n = maxRetries + 1

\* shouldContinue without the predicate's answer.
IgnoresAnswer(isLastAttempt, answer) == ~isLastAttempt

\* shouldContinue (line 147), given the completed call of shouldRetry.
ShouldContinue(isLastAttempt, answer) == ~isLastAttempt /\ answer

\* options.errorTransformer called outside transformError.
transformedErrorDirect(error, transformer, n) ==
    IF transformer # NoTransformer
    THEN ApplyTransformer(WithAttempt(transformer, n), error)
    ELSE Normal(error)

\* transformedError (lines 150-152): the completion of its initialiser.
transformedError(error, transformer, n) ==
    IF transformer # NoTransformer
    THEN transformError(error, WithAttempt(transformer, n))
    ELSE Normal(error)

\* The errorTransformer applied to the failure of every attempt.
TransformerAppliesPerAttempt(shouldContinue) == TRUE

\* Whether options.errorTransformer is called for a failed attempt: only
\* inside `if (!shouldContinue)` (lines 149-151).
TransformerApplies(shouldContinue) == ~shouldContinue

\* A timer callback that does not resolve the awaited promise.
TimerDoesNotResolve == FALSE

\* setTimeout(resolve, nextDelay) (line 163): the timer's callback is the
\* resolve function of the awaited promise, so the call resumes when it fires.
TimerResolves == TRUE

\* The promise of the timer is not awaited.
TimerNotAwaited == FALSE

\* Whether the promise of the timer is awaited (line 163).
TimerAwaited == TRUE

\* A retry loop without backoff: every wait is the base delay.
NextDelayConstant(backoff, delay, n) == delay

\* nextDelay computed from the number of the next attempt.
NextDelayOfNextAttempt(backoff, delay, n) ==
    IF backoff = "exponential" THEN delay * 2 ^ n ELSE delay * (n + 1)

\* nextDelay (lines 157-160).
NextDelay(backoff, delay, n) ==
    IF backoff = "exponential" THEN delay * 2 ^ (n - 1) ELSE delay * n

UnexpectedExit == ErrorValue("Unexpected retry loop exit")

RetryIdle ==
    /\ options = <<>>
    /\ retryPc = "idle"
    /\ attempt = 0
    /\ retryFnCalls = 0
    /\ history = <<>>
    /\ shouldRetryCalls = <<>>
    /\ transformerCalls = <<>>
    /\ waits = <<>>
    /\ logs = 0
    /\ timersFired = 0
    /\ retryOutcome = NoValue

RetryReady ==
    /\ options \in RetryOptions
    /\ retryPc = "ready"
    /\ attempt = 0
    /\ retryFnCalls = 0
    /\ history = <<>>
    /\ shouldRetryCalls = <<>>
    /\ transformerCalls = <<>>
    /\ waits = <<>>
    /\ logs = 0
    /\ timersFired = 0
    /\ retryOutcome = NoValue

\* The head of the loop with the loop variable at n: either fn is invoked
\* through neatCatch and the call suspends on the await (lines 141-142), or
\* the loop is left and the defensive tuple returned (line 167).
LoopHead(n) ==
    /\ attempt' = n
    /\ IF LoopCondition(n, maxRetriesOf(options))
       THEN /\ retryPc' = "awaitingFn"
            /\ retryFnCalls' = retryFnCalls + 1
            /\ UNCHANGED retryOutcome
       ELSE /\ retryPc' = "fulfilled"
            /\ retryOutcome' = Tuple(NULL, UnexpectedExit)
            /\ UNCHANGED retryFnCalls

\* The call neatCatchRetry(fn, options) up to its first suspension.
RetryCall ==
    /\ retryPc = "ready"
    /\ LoopHead(1)
    /\ UNCHANGED <<options, history, shouldRetryCalls, transformerCalls, waits, logs, timersFired>>
    /\ UNCHANGED <<errorTransformer, ncVars, allVars, wrapperVars>>

\* The attempt in flight settles as `behaviour` and the call resumes after
\* the await of line 142 (lines 142-163).
RetryFnSettles(behaviour) ==
    /\ retryPc = "awaitingFn"
    /\ history' = Append(history, behaviour)
    /\ LET c == awaitNeatCatch(behaviour, NoTransformer)
           maxRetries == maxRetriesOf(options)
           transformer == errorTransformerOf(options)
       IN
       IF c.type = "throw"
       THEN /\ retryPc' = "rejected"
            /\ retryOutcome' = c.value
            /\ UNCHANGED <<shouldRetryCalls, transformerCalls, waits, logs, attempt, retryFnCalls>>
       ELSE
       LET data == c.value.data
           error == c.value.error
           isLastAttempt == IsLastAttempt(attempt, maxRetries)
           asked == ~isLastAttempt
           answer == IF asked
                     THEN ApplyShouldRetry(shouldRetryOf(options), error, attempt)
                     ELSE Normal(FALSE)
       IN
       IF ~ToBoolean(error)
       THEN /\ retryPc' = "fulfilled"
            /\ retryOutcome' = Tuple(data, NULL)
            /\ UNCHANGED <<shouldRetryCalls, transformerCalls, waits, logs, attempt, retryFnCalls>>
       ELSE
       /\ shouldRetryCalls' =
            IF asked
            THEN Append(shouldRetryCalls, [error |-> error, attempt |-> attempt])
            ELSE shouldRetryCalls
       /\ IF answer.type = "throw"
          THEN /\ retryPc' = "rejected"
               /\ retryOutcome' = answer.value
               /\ UNCHANGED <<transformerCalls, waits, logs, attempt, retryFnCalls>>
          ELSE
          LET shouldContinue == ShouldContinue(isLastAttempt, answer.value) IN
          /\ transformerCalls' =
               IF TransformerApplies(shouldContinue) /\ transformer # NoTransformer
               THEN Append(transformerCalls, [error |-> error, attempt |-> attempt])
               ELSE transformerCalls
          /\ IF ~shouldContinue
             THEN LET t == transformedError(error, transformer, attempt)
                  IN /\ IF t.type = "throw"
                        THEN retryPc' = "rejected" /\ retryOutcome' = t.value
                        ELSE retryPc' = "fulfilled" /\ retryOutcome' = Tuple(NULL, t.value)
                     /\ UNCHANGED <<waits, logs, attempt, retryFnCalls>>
             ELSE /\ waits' = Append(waits, NextDelay(backoffOf(options), delayOf(options), attempt))
                  /\ logs' = logs + 1
                  /\ IF TimerAwaited
                     THEN /\ retryPc' = "waiting"
                          /\ UNCHANGED <<attempt, retryFnCalls, retryOutcome>>
                     ELSE LoopHead(NextAttempt(attempt))
    /\ UNCHANGED <<options, timersFired>>
    /\ UNCHANGED <<errorTransformer, ncVars, allVars, wrapperVars>>

\* The timer of line 163 fires: the loop variable is incremented and the
\* loop head is run again.
RetryTimerFires ==
    /\ retryPc = "waiting"
    /\ IF TimerResolves
       THEN LoopHead(NextAttempt(attempt))
       ELSE /\ retryPc' = "timerFired"
            /\ UNCHANGED <<attempt, retryFnCalls, retryOutcome>>
    /\ timersFired' = timersFired + 1
    /\ UNCHANGED <<options, history, shouldRetryCalls, transformerCalls, waits, logs>>
    /\ UNCHANGED <<errorTransformer, ncVars, allVars, wrapperVars>>

-----------------------------------------------------------------------------
(* createNeatWrapper *)

\* The largest number of calls of one wrapper.
MaxWrapperCalls == 2

\* The argument lists a wrapper is called with.
ArgLists ==
    {<<>>, <<StringValue("a")>>, <<StringValue("a"), StringValue("b")>>}

\* How fn(...args) can end for one argument list.
WrappedBehaviours ==
    {Normal(StringValue("success")),
     Throw(ErrorValue("boom")),
     Normal(PromiseOf("fulfil", NULL)),
     Normal(PromiseOf("reject", StringValue("string error")))}

\* A wrapper that passes only its first argument on.
SpreadFirstOnly(args) == IF args = <<>> THEN args ELSE <<args[1]>>

\* fn(...args) of the rest parameter ...args (lines 67-68): fn receives the
\* arguments of the call, in order.
Spread(args) == args

\* A wrapper that evaluates fn(...args) before handing the result to neatCatch.
WrapperInvokeEager(fnCompletion, transformer) ==
    IF fnCompletion.type = "throw"
    THEN fnCompletion
    ELSE neatCatchSync(fnCompletion, transformer)

\* neatCatch(() => fn(...args), errorTransformer) (line 68), up to its return.
WrapperInvoke(fnCompletion, transformer) == neatCatchSync(fnCompletion, transformer)

\* No wrapper exists (the variables of a specification of another operation).
WrapperIdle ==
    /\ wrapped = <<>>
    /\ wrapperCalls = <<>>
    /\ fnInvocations = <<>>

\* createNeatWrapper(fn, errorTransformer) has returned the wrapper.
WrapperReady ==
    /\ wrapped \in [ArgLists -> WrappedBehaviours]
    /\ errorTransformer \in Transformers
    /\ wrapperCalls = <<>>
    /\ fnInvocations = <<>>

\* One call wrapper(...args), up to its return.
WrapperCall(args) ==
    /\ Len(wrapperCalls) < MaxWrapperCalls
    /\ LET received == Spread(args)
           fnCompletion == wrapped[received]
           c == WrapperInvoke(fnCompletion, errorTransformer)
       IN
       /\ fnInvocations' = Append(fnInvocations, received)
       /\ wrapperCalls' =
            Append(wrapperCalls,
                   [args |-> args,
                    result |-> IF fnCompletion.type = "normal" THEN fnCompletion.value ELSE NoValue,
                    pc |-> IF c.type = "throw" THEN "thrown"
                           ELSE IF IsPending(c.value) THEN "pending" ELSE "returned",
                    outcome |-> IF c.type = "normal" /\ IsPending(c.value) THEN NoValue ELSE c.value])
    /\ UNCHANGED <<wrapped, errorTransformer, ncVars, allVars, retryVars>>

\* The promise fn returned in call number `call` settles and the callbacks
\* neatCatch chained on it run.
WrapperSettle(call) ==
    /\ call \in 1..Len(wrapperCalls)
    /\ wrapperCalls[call].pc = "pending"
    /\ LET c == neatCatchSettle(wrapperCalls[call].result, errorTransformer) IN
       wrapperCalls' =
           [wrapperCalls EXCEPT ![call].pc = IF c.type = "throw" THEN "rejected" ELSE "fulfilled",
                                ![call].outcome = c.value]
    /\ UNCHANGED <<wrapped, fnInvocations, errorTransformer, ncVars, allVars, retryVars>>

-----------------------------------------------------------------------------
(* Specifications *)

InitNeatCatch == NeatCatchReady /\ AllIdle /\ RetryIdle /\ WrapperIdle

NextNeatCatch == NeatCatchCall \/ NeatCatchSettle

SpecNeatCatch == InitNeatCatch /\ [][NextNeatCatch]_vars

InitAll == AllReady /\ NeatCatchIdle /\ RetryIdle /\ WrapperIdle

NextAll ==
    \/ AllStartOperation
    \/ AllAwait
    \/ \E index \in 0..(MaxOperations - 1) : AllOperationSettles(index)
    \/ AllResume

SpecAll == InitAll /\ [][NextAll]_vars

\* Every operation's promise settles and the event loop runs every
\* continuation that is ready.
SpecAllFair ==
    /\ InitAll
    /\ [][NextAll]_vars
    /\ WF_vars(AllStartOperation)
    /\ WF_vars(AllAwait)
    /\ \A index \in 0..(MaxOperations - 1) : WF_vars(AllOperationSettles(index))
    /\ WF_vars(AllResume)

InitRetry ==
    RetryReady /\ NeatCatchIdle /\ AllIdle /\ WrapperIdle /\ errorTransformer = NoTransformer

NextRetry ==
    \/ RetryCall
    \/ \E behaviour \in RetryFnBehaviours : RetryFnSettles(behaviour)
    \/ RetryTimerFires

SpecRetry == InitRetry /\ [][NextRetry]_vars

\* Every invocation of fn settles and every timer fires: the event loop runs
\* the continuation of a settled promise and the callback of an elapsed timer.
SpecRetryFair ==
    /\ InitRetry
    /\ [][NextRetry]_vars
    /\ WF_vars(RetryCall)
    /\ WF_vars(\E behaviour \in RetryFnBehaviours : RetryFnSettles(behaviour))
    /\ WF_vars(RetryTimerFires)

InitWrapper == WrapperReady /\ NeatCatchIdle /\ AllIdle /\ RetryIdle

NextWrapper ==
    \/ \E args \in ArgLists : WrapperCall(args)
    \/ \E call \in 1..MaxWrapperCalls : WrapperSettle(call)

SpecWrapper == InitWrapper /\ [][NextWrapper]_vars

-----------------------------------------------------------------------------
(* Properties of neatCatch *)

\* C1: neatCatch never throws and its awaitable never rejects; an operation
\* that throws or rejects with a failure value yields (null, failure) when no
\* transformer is given and (null, transformer(failure)) when the transformer
\* returns normally.
C1_NeatCatchNeverThrows ==
    /\ ncPc \notin {"thrown", "rejected"}
    /\ (ncPc \in {"returned", "fulfilled"} /\ FnFails(fn)) =>
         /\ errorTransformer = NoTransformer => ncOutcome = Tuple(NULL, FnValue(fn))
         /\ (/\ errorTransformer # NoTransformer
             /\ ApplyTransformer(errorTransformer, FnValue(fn)).type = "normal")
            => ncOutcome = Tuple(NULL, ApplyTransformer(errorTransformer, FnValue(fn)).value)

\* A promise rejected with undefined has been converted with a transformer.
C1_Witness ==
    /\ ncPc = "fulfilled"
    /\ fn = Normal(PromiseOf("reject", UNDEFINED))
    /\ errorTransformer = Transformer("withContext")
    /\ ncOutcome = Tuple(NULL, withContext(UNDEFINED))

-----------------------------------------------------------------------------
(* Properties of neatCatchAll *)

\* Whether array[index] is populated (array may be the absent marker null).
Populated(array, index) == array # NULL /\ index \in DOMAIN array.elems

\* C4: after neatCatchAll fulfils, results[i] is populated iff operation i
\* succeeded, errors[i] is populated iff operation i failed, and at most one
\* of the two is populated.
C4_SlotsMatchOutcome ==
    allPc = "fulfilled" =>
        \A i \in DOMAIN operations :
            /\ Populated(allReturn.results, i) <=> FnSucceeds(operations[i])
            /\ Populated(allReturn.errors, i) <=> FnFails(operations[i])
            /\ ~(Populated(allReturn.results, i) /\ Populated(allReturn.errors, i))

\* C5: if every operation fails, the returned results is null.
C5_AllFailResultsNull ==
    (allPc = "fulfilled" /\ \A i \in DOMAIN operations : FnFails(operations[i]))
        => allReturn.results = NULL

\* C6: if every operation succeeds, the returned errors is null and results
\* holds every operation's value at its own index.
C6_AllSucceedErrorsNull ==
    (allPc = "fulfilled" /\ \A i \in DOMAIN operations : FnSucceeds(operations[i]))
        => /\ allReturn.errors = NULL
           /\ \A i \in DOMAIN operations :
                /\ Populated(allReturn.results, i)
                /\ allReturn.results.elems[i] = FnValue(operations[i])

\* Three operations succeeded, one of them with null.
C6_Witness ==
    /\ allPc = "fulfilled"
    /\ NumOperations = 3
    /\ \A i \in DOMAIN operations : FnSucceeds(operations[i])
    /\ FnValue(operations[1]) = NULL
    /\ allReturn.errors = NULL
    /\ Length(allReturn.results.elems) = 3
    /\ allReturn.results.elems[1] = NULL

\* The tuple the conversion of operation `index` ends with, read off the
\* operation alone.
OperationTuple(index) ==
    IF FnFails(operations[index])
    THEN Tuple(NULL, transformError(FnValue(operations[index]), errorTransformer).value)
    ELSE Tuple(FnValue(operations[index]), NULL)

ErrorIndices == {i \in DOMAIN operations : ToBoolean(OperationTuple(i).error)}
ExpectedResults == [i \in DOMAIN operations \ ErrorIndices |-> OperationTuple(i).data]
ExpectedErrors == [i \in ErrorIndices |-> OperationTuple(i).error]

\* C7: the value neatCatchAll returns is a function of how each operation
\* ends, the same for every order of settlement, and each entry sits at the
\* index of its operation.
C7_OrderIndependent ==
    allPc = "fulfilled" =>
        /\ allReturn.results = ArrayOrNull(ExpectedResults)
        /\ allReturn.errors = ArrayOrNull(ExpectedErrors)

\* The second operation settled before the first one.
C7_Witness ==
    /\ allPc = "fulfilled"
    /\ settleOrder = <<1, 0>>
    /\ allReturn.results = ArrayOf(1 :> StringValue("success"))
    /\ allReturn.errors = ArrayOf(0 :> ErrorValue("boom"))

\* C8: neatCatchAll fulfils only after every operation has settled, also
\* when operations fail.
C8_NoShortCircuit ==
    allPc = "fulfilled" =>
        /\ \A i \in DOMAIN operations : settled[i].status # "pending"
        /\ Len(settleOrder) = NumOperations

\* All three operations failed, the last one first, and the call returned
\* only after the three settlements.
C8_Witness ==
    /\ allPc = "fulfilled"
    /\ NumOperations = 3
    /\ \A i \in DOMAIN operations : FnFails(operations[i])
    /\ settleOrder = <<2, 0, 1>>

\* C9: every operation has been invoked, in input order, before the call
\* suspends, and no settlement happens before all are started.
C9_AllStartedBeforeSuspend ==
    /\ allPc \in {"awaiting", "fulfilled"} => started = [i \in 1..NumOperations |-> i - 1]
    /\ allPc = "mapping" => settleOrder = <<>>

\* Suspended with three operations started and none settled.
C9_Witness ==
    /\ allPc = "awaiting"
    /\ started = <<0, 1, 2>>
    /\ settleOrder = <<>>

-----------------------------------------------------------------------------
(* Properties of neatCatchRetry *)

\* C2: the awaitable neatCatchRetry returns never rejects, whatever fn, the
\* options, the errorTransformer and the shouldRetry predicate do.
C2_RetryNeverRejects == retryPc # "rejected"

\* How the last settled attempt ended.
LastAttempt == history[Len(history)]

\* The error a run that stops on the failure `error` of attempt n reports.
ReportedError(error, n) ==
    IF errorTransformerOf(options) = NoTransformer
    THEN error
    ELSE transformError(error, WithAttempt(errorTransformerOf(options), n)).value

\* C3: neatCatchRetry returns a success outcome (value, null) only for an
\* attempt that succeeded with that value; a run that ends on a failed
\* attempt returns a failure outcome carrying that failure.
C3_FailureNeverReportedAsSuccess ==
    (retryPc = "fulfilled" /\ history # <<>>) =>
        /\ FnSucceeds(LastAttempt) => retryOutcome = Tuple(FnValue(LastAttempt), NULL)
        /\ FnFails(LastAttempt) =>
             retryOutcome = Tuple(NULL, ReportedError(FnValue(LastAttempt), Len(history)))

\* C10: with a non-negative maxRetries, fn has been invoked at most
\* maxRetries + 1 times at every point of a run.
C10_AttemptBudget ==
    maxRetriesOf(options) >= 0 => retryFnCalls <= maxRetriesOf(options) + 1

\* A run with maxRetries 2 that used its whole budget: three invocations,
\* two waits, then the final failure.
C10_Witness ==
    /\ retryPc = "fulfilled"
    /\ "maxRetries" \in DOMAIN options /\ options.maxRetries = 2
    /\ retryFnCalls = 3
    /\ Len(waits) = 2
    /\ \A i \in 1..3 : FnFails(history[i])

\* Whether every settled attempt was rejected with an Error object.
AlwaysRejectsWithError ==
    \A i \in 1..Len(history) :
        /\ FnFails(history[i])
        /\ history[i].type = "normal"
        /\ FnValue(history[i]).type = "Error"

\* C11: with the default shouldRetry and maxRetries = m >= 0, against an fn
\* that rejects with an Error on every attempt, a finished run has invoked
\* fn exactly m + 1 times and returns (null, e), e the failure of the last
\* attempt, unmodified when no errorTransformer is given.
C11_ExhaustedBudget ==
    (/\ retryPc = "fulfilled"
     /\ shouldRetryOf(options) = "default"
     /\ maxRetriesOf(options) >= 0
     /\ AlwaysRejectsWithError)
    => /\ retryFnCalls = maxRetriesOf(options) + 1
       /\ Len(history) = maxRetriesOf(options) + 1
       /\ retryOutcome.data = NULL
       /\ errorTransformerOf(options) = NoTransformer
            => retryOutcome.error = FnValue(LastAttempt)

\* maxRetries 2, three rejections with an Error, the last one reported.
C11_Witness ==
    /\ retryPc = "fulfilled"
    /\ DOMAIN options = {"maxRetries", "delay"} /\ options.maxRetries = 2
    /\ AlwaysRejectsWithError
    /\ retryFnCalls = 3
    /\ history[3] = Normal(PromiseOf("reject", ErrorValue("non-retryable")))
    /\ retryOutcome = Tuple(NULL, ErrorValue("non-retryable"))

\* C12: when attempt k is the first to succeed, the run returns (value of
\* attempt k, null) at once: fn has been invoked exactly k times, no wait
\* follows attempt k, and neither shouldRetry nor errorTransformer is invoked
\* for attempt k.
C12_EarlySuccess ==
    (history # <<>> /\ FnSucceeds(LastAttempt)) =>
        LET k == Len(history) IN
        /\ retryPc = "fulfilled"
        /\ retryOutcome = Tuple(FnValue(LastAttempt), NULL)
        /\ retryFnCalls = k
        /\ Len(waits) = k - 1
        /\ \A i \in 1..Len(shouldRetryCalls) : shouldRetryCalls[i].attempt # k
        /\ \A i \in 1..Len(transformerCalls) : transformerCalls[i].attempt # k

\* An Error, then a string, then success on attempt 3.
C12_Witness ==
    /\ retryPc = "fulfilled"
    /\ Len(history) = 3
    /\ FnValue(history[1]) = ErrorValue("retryable")
    /\ FnValue(history[2]) = StringValue("string error")
    /\ history[3] = Normal(PromiseOf("fulfil", StringValue("success")))
    /\ retryOutcome = Tuple(StringValue("success"), NULL)
    /\ "errorTransformer" \in DOMAIN options

\* Whether the i-th call of shouldRetry returned false.
Refused(i) ==
    LET answer == ApplyShouldRetry(shouldRetryOf(options), shouldRetryCalls[i].error,
                                   shouldRetryCalls[i].attempt)
    IN answer.type = "normal" /\ ~answer.value

\* C13: if shouldRetry returns false for the failure of attempt n, the run
\* stops after exactly n invocations of fn, performs no wait after that
\* failure and reports the failure of attempt n.
C13_PredicateRefusalStops ==
    \A i \in 1..Len(shouldRetryCalls) :
        Refused(i) =>
            LET n == shouldRetryCalls[i].attempt IN
            /\ i = Len(shouldRetryCalls)
            /\ n <= maxRetriesOf(options)
            /\ retryPc = "fulfilled"
            /\ retryFnCalls = n
            /\ Len(history) = n
            /\ Len(waits) = n - 1
            /\ shouldRetryCalls[i].error = FnValue(history[n])
            /\ retryOutcome = Tuple(NULL, ReportedError(FnValue(history[n]), n))

\* The predicate accepted the first failure and refused the second, with a
\* budget of three retries.
C13_Witness ==
    /\ retryPc = "fulfilled"
    /\ shouldRetryOf(options) = "retryable"
    /\ maxRetriesOf(options) = 3
    /\ Len(shouldRetryCalls) = 2 /\ Refused(2)
    /\ retryFnCalls = 2
    /\ FnValue(history[1]) = ErrorValue("retryable")
    /\ retryOutcome = Tuple(NULL, ErrorValue("non-retryable"))

\* x doubled `times` times.
RECURSIVE Doubled(_, _)
Doubled(x, times) == IF times = 0 THEN x ELSE Doubled(2 * x, times - 1)

\* The wait the specification prescribes after the failure of attempt n.
PrescribedWait(n) ==
    IF backoffOf(options) = "exponential"
    THEN Doubled(delayOf(options), n - 1)
    ELSE n * delayOf(options)

\* C14: the wait performed after the failure of attempt n is delay * 2^(n-1)
\* under exponential backoff and delay * n under linear backoff.
C14_BackoffFormula ==
    /\ Len(waits) <= Len(history)
    /\ \A n \in 1..Len(waits) :
         /\ FnFails(history[n])
         /\ waits[n] = PrescribedWait(n)

\* Three linear waits of base 100.
C14_Witness ==
    /\ backoffOf(options) = "linear"
    /\ delayOf(options) = 100
    /\ waits = <<100, 200, 300>>

\* C15 as stated: with delay = 100 the linear wait after attempt 2's failure
\* is 200, the exponential wait after attempt 1's failure is 200 and the
\* exponential wait after attempt 2's failure is 400.
C15_Original ==
    delayOf(options) = 100 =>
        /\ (backoffOf(options) = "linear" /\ Len(waits) >= 2) => waits[2] = 200
        /\ (backoffOf(options) = "exponential" /\ Len(waits) >= 1) => waits[1] = 200
        /\ (backoffOf(options) = "exponential" /\ Len(waits) >= 2) => waits[2] = 400

\* C15: with delay = 100 the linear wait after attempt 2's failure is 200,
\* the exponential wait after attempt 1's failure is 100 and the exponential
\* wait after attempt 2's failure is 200.
C15_BackoffExamples ==
    delayOf(options) = 100 =>
        /\ (backoffOf(options) = "linear" /\ Len(waits) >= 2) => waits[2] = 200
        /\ (backoffOf(options) = "exponential" /\ Len(waits) >= 1) => waits[1] = 100
        /\ (backoffOf(options) = "exponential" /\ Len(waits) >= 2) => waits[2] = 200

\* Two exponential waits of base 100 have been performed and attempt 3 runs.
C15_Witness ==
    /\ delayOf(options) = 100
    /\ backoffOf(options) = "exponential"
    /\ Len(waits) = 2
    /\ retryPc = "awaitingFn"
    /\ retryFnCalls = 3

\* C16: with maxRetries = 0, neatCatchRetry invokes fn exactly once, never
\* waits and never consults shouldRetry; a failure of that single attempt is
\* returned as the failure outcome.
C16_ZeroRetries ==
    maxRetriesOf(options) = 0 =>
        /\ retryFnCalls <= 1
        /\ waits = <<>>
        /\ shouldRetryCalls = <<>>
        /\ timersFired = 0
        /\ retryPc = "fulfilled" =>
             /\ retryFnCalls = 1
             /\ FnFails(history[1]) =>
                  retryOutcome = Tuple(NULL, ReportedError(FnValue(history[1]), 1))

\* C17: when neatCatchRetry stops on a failed attempt and an errorTransformer
\* option is supplied, the transformer is called once, with the raw failure
\* of that attempt and its 1-based number, which is the number of invocations
\* of fn so far; its return value is the reported error.
C17_TransformerSeesTerminatingAttempt ==
    (/\ retryPc = "fulfilled"
     /\ history # <<>>
     /\ FnFails(LastAttempt)
     /\ errorTransformerOf(options) # NoTransformer)
    => LET n == Len(history)
           answer == ApplyTransformer(WithAttempt(errorTransformerOf(options), n),
                                      FnValue(LastAttempt))
       IN /\ n = retryFnCalls
          /\ transformerCalls = <<[error |-> FnValue(LastAttempt), attempt |-> n]>>
          /\ answer.type = "normal" => retryOutcome = Tuple(NULL, answer.value)

\* The number of invocations of fn that have not settled yet.
InFlight == retryFnCalls - Len(history)

\* C18: the attempts of neatCatchRetry are strictly sequential: at most one
\* invocation of fn is in flight at any time, and when attempt n + 1 is
\* started attempt n has settled, the continue decision for it has been taken
\* and its backoff wait has elapsed.
C18_StrictlySequential ==
    /\ InFlight \in {0, 1}
    /\ InFlight = 1 <=> retryPc = "awaitingFn"
    /\ retryPc = "awaitingFn" =>
         LET n == retryFnCalls - 1 IN
         /\ Len(history) = n
         /\ Len(shouldRetryCalls) = n
         /\ Len(waits) = n
         /\ timersFired = n
         /\ \A i \in 1..n : shouldRetryCalls[i].attempt = i
    /\ timersFired <= Len(waits)
    /\ Len(waits) <= timersFired + 1

\* Attempt 3 is in flight after two settled attempts and two elapsed waits.
C18_Witness ==
    /\ retryPc = "awaitingFn"
    /\ InFlight = 1
    /\ retryFnCalls = 3
    /\ timersFired = 2
    /\ Len(shouldRetryCalls) = 2

-----------------------------------------------------------------------------
(* Properties of the outcome pair of neatCatch *)

\* neatCatch has returned its tuple or its promise has fulfilled with it.
NeatCatchDone == ncPc \in {"returned", "fulfilled"}

\* The pairs neatCatch produces for the succeeding operations.
SuccessOutcomes ==
    {awaitNeatCatch(g, errorTransformer).value : g \in {h \in FnBehaviours : FnSucceeds(h)}}

\* C19 as stated: for every operation that fails, with or without a
\* transformer, the pair neatCatch produces differs from the pair produced
\* for every succeeding operation, one succeeding with null or undefined
\* included.
C19_Original ==
    (NeatCatchDone /\ FnFails(fn)) => ncOutcome \notin SuccessOutcomes

\* C19: for every operation that fails, the pair neatCatch produces differs
\* from the pair of every succeeding operation unless the reported error
\* (the failure, or the transformer's result) is null; the pair is then
\* (null, null), the pair of an operation that succeeds with null.
C19_FailureDistinctUnlessNull ==
    (NeatCatchDone /\ FnFails(fn)) =>
        LET reported == transformError(FnValue(fn), errorTransformer).value IN
        IF reported = NULL
        THEN ncOutcome = awaitNeatCatch(Normal(NULL), errorTransformer).value
        ELSE ncOutcome \notin SuccessOutcomes

\* An operation threw undefined, and the pair (null, undefined) differs from
\* the pair (undefined, null) of an operation returning undefined.
C19_Witness ==
    /\ ncPc = "returned"
    /\ fn = Throw(UNDEFINED)
    /\ errorTransformer = NoTransformer
    /\ ncOutcome = Tuple(NULL, UNDEFINED)
    /\ Tuple(UNDEFINED, NULL) \in SuccessOutcomes

\* C20: every outcome of neatCatch has at most one slot set: when the value
\* slot holds a non-null value the error slot is null, and when the error
\* slot holds a non-null value the value slot is null.
C20_AtMostOneSlot ==
    NeatCatchDone =>
        /\ ncOutcome.data # NULL => ncOutcome.error = NULL
        /\ ncOutcome.error # NULL => ncOutcome.data = NULL

\* A rejection converted by toString fills the error slot only.
C20_Witness ==
    /\ ncPc = "fulfilled"
    /\ fn = Normal(PromiseOf("reject", ErrorValue("boom")))
    /\ errorTransformer = Transformer("toString")
    /\ ncOutcome = Tuple(NULL, StringValue("boom"))

\* C21: if the error transformer passed to neatCatch throws while
\* transforming a failure, neatCatch neither throws nor rejects: the value
\* slot is null and the error slot holds an aggregate error whose bundled
\* errors are, in this order, the original failure and the transformer's own
\* failure.
C21_ThrowingTransformerBundled ==
    (FnFails(fn) /\ errorTransformer = Transformer("throws")) =>
        /\ ncPc \notin {"thrown", "rejected"}
        /\ NeatCatchDone =>
             /\ ncTransformerCalls = 1
             /\ ncOutcome.data = NULL
             /\ ncOutcome.error.type = "AggregateError"
             /\ ncOutcome.error.errors = <<FnValue(fn), TransformerFailure>>

\* A rejection with a string went through the throwing transformer.
C21_Witness ==
    /\ ncPc = "fulfilled"
    /\ fn = Normal(PromiseOf("reject", StringValue("string error")))
    /\ errorTransformer = Transformer("throws")
    /\ ncOutcome = Tuple(NULL, AggregateError(<<StringValue("string error"), TransformerFailure>>))

-----------------------------------------------------------------------------
(* Properties of createNeatWrapper *)

\* What neatCatch(() => fn(...args), errorTransformer) yields for one
\* argument list, once settled.
DirectOutcome(args) == awaitNeatCatch(wrapped[args], errorTransformer).value

\* C22: a function returned by createNeatWrapper never throws synchronously
\* and never returns an awaitable that rejects, for sync and async fn, every
\* argument list and every transformer, a throwing one included; every
\* failure ends up in the error slot of the outcome.
C22_WrapperNeverThrows ==
    \A call \in 1..Len(wrapperCalls) :
        LET w == wrapperCalls[call] IN
        /\ w.pc \notin {"thrown", "rejected"}
        /\ (w.pc \in {"returned", "fulfilled"} /\ FnFails(wrapped[w.args])) =>
             /\ w.outcome.data = NULL
             /\ w.outcome.error =
                  transformError(FnValue(wrapped[w.args]), errorTransformer).value

\* A call whose fn threw, with a throwing transformer, returned the aggregate.
C22_Witness ==
    /\ Len(wrapperCalls) = 2
    /\ wrapperCalls[2].pc = "returned"
    /\ wrapped[wrapperCalls[2].args] = Throw(ErrorValue("boom"))
    /\ errorTransformer = Transformer("throws")
    /\ wrapperCalls[2].outcome =
         Tuple(NULL, AggregateError(<<ErrorValue("boom"), TransformerFailure>>))
    /\ wrapperCalls[1].pc = "fulfilled"
    /\ wrapperCalls[1].outcome.error.type = "AggregateError"

\* C27: a call of the function returned by createNeatWrapper(fn, transformer)
\* invokes fn exactly once, with exactly the arguments of the call, and
\* yields the outcome of neatCatch(() => fn(...args), transformer); the
\* outcome of a call depends on its own arguments only, never on earlier
\* calls of the same wrapper.
C27_WrapperDelegates ==
    /\ Len(fnInvocations) = Len(wrapperCalls)
    /\ \A call \in 1..Len(wrapperCalls) :
         LET w == wrapperCalls[call] IN
         /\ fnInvocations[call] = w.args
         /\ w.pc \in {"returned", "fulfilled"} => w.outcome = DirectOutcome(w.args)
         /\ w.pc = "pending" => IsPending(neatCatchSync(wrapped[w.args], errorTransformer).value)

\* Two finished calls of one wrapper with different arguments and different
\* outcomes.
C27_Witness ==
    /\ Len(wrapperCalls) = 2
    /\ wrapperCalls[1].args = <<StringValue("a"), StringValue("b")>>
    /\ wrapperCalls[2].args = <<StringValue("a")>>
    /\ fnInvocations = <<wrapperCalls[1].args, wrapperCalls[2].args>>
    /\ wrapperCalls[1].pc = "fulfilled"
    /\ wrapperCalls[2].pc = "returned"
    /\ wrapperCalls[1].outcome = Tuple(NULL, NULL)
    /\ wrapperCalls[2].outcome = Tuple(StringValue("success"), NULL)

-----------------------------------------------------------------------------
(* Further properties of neatCatch *)

\* C23: for every non-awaitable value v, neatCatch(() => v) returns the
\* outcome (v, null) within the call itself, without suspension; for an
\* operation returning an awaitable that fulfils with v, neatCatch returns an
\* awaitable, which fulfils with (v, null).
C23_SyncAsyncTransparency ==
    /\ (fn.type = "normal" /\ ~Settles(fn.value)) =>
         /\ ncPc \in {"ready", "returned"}
         /\ ncPc = "returned" => ncOutcome = Tuple(fn.value, NULL)
    /\ (fn.type = "normal" /\ Settles(fn.value) /\ fn.value.fate = "fulfil") =>
         /\ ncPc \in {"ready", "pending", "fulfilled"}
         /\ ncPc = "pending" => ncOutcome = NoValue
         /\ ncPc = "fulfilled" => ncOutcome = Tuple(fn.value.with, NULL)

\* A thenable of another library has fulfilled with "success".
C23_Witness ==
    /\ fn = Normal(ThenableOf("fulfil", StringValue("success")))
    /\ ncPc = "fulfilled"
    /\ ncFnCalls = 1
    /\ ncOutcome = Tuple(StringValue("success"), NULL)

-----------------------------------------------------------------------------
(* Further properties of neatCatchRetry *)

\* C24: no core operation produces log output: on every path of
\* neatCatchRetry, every retry and every backoff wait included, nothing is
\* written to the console.
C24_NoLogOutput == logs = 0

\* C25: called without options against an fn that rejects with an Error on
\* every attempt, neatCatchRetry retries 3 times (4 invocations in total)
\* with base delay 1000 and exponential backoff: waits of 1000, 2000 and 4000
\* between consecutive attempts.
C25_Defaults ==
    (DOMAIN options = {} /\ retryPc # "idle" /\ AlwaysRejectsWithError) =>
        /\ Len(waits) <= 3
        /\ \A i \in 1..Len(waits) : waits[i] = <<1000, 2000, 4000>>[i]
        /\ retryPc = "fulfilled" =>
             /\ retryFnCalls = 4
             /\ waits = <<1000, 2000, 4000>>
             /\ timersFired = 3
             /\ retryOutcome = Tuple(NULL, FnValue(LastAttempt))

\* Four rejections with an Error without options.
C25_Witness ==
    /\ DOMAIN options = {}
    /\ retryPc = "fulfilled"
    /\ Len(history) = 4
    /\ AlwaysRejectsWithError
    /\ waits = <<1000, 2000, 4000>>
    /\ retryOutcome = Tuple(NULL, ErrorValue("retryable"))

\* The run returned from inside the loop: at line 144 with the data of the
\* last attempt, or at line 153 with its reported failure.
ReturnedInsideLoop ==
    /\ history # <<>>
    /\ Len(history) = attempt
    /\ \/ retryOutcome = Tuple(awaitNeatCatch(LastAttempt, NoTransformer).value.data, NULL)
       \/ retryOutcome = Tuple(NULL, ReportedError(FnValue(LastAttempt), attempt))

\* C26: for every non-negative maxRetries and every fn, shouldRetry and
\* errorTransformer, neatCatchRetry never reaches its defensive loop exit: no
\* run returns the 'Unexpected retry loop exit' error, and every run ends in
\* Succeeded or FailedFinal from inside the attempt loop.
C26_DefensiveExitUnreachable ==
    maxRetriesOf(options) >= 0 =>
        /\ retryOutcome # Tuple(NULL, UnexpectedExit)
        /\ retryPc # "rejected"
        /\ retryPc = "fulfilled" => ReturnedInsideLoop

\* C28: neatCatchRetry invokes its errorTransformer option at most once per
\* call and only when retrying stops with a failure: never for the failure
\* of an attempt that is followed by a retry, and never in a run that ends in
\* success.
C28_TransformerOnlyAtStop ==
    /\ Len(transformerCalls) <= 1
    /\ transformerCalls # <<>> =>
         LET n == transformerCalls[1].attempt IN
         /\ retryPc \in {"fulfilled", "rejected"}
         /\ n = Len(history)
         /\ n = retryFnCalls
         /\ FnFails(history[n])
         /\ transformerCalls[1].error = FnValue(history[n])
         /\ Len(waits) = n - 1
         /\ retryPc = "fulfilled" => retryOutcome.data = NULL
    /\ (history # <<>> /\ FnSucceeds(LastAttempt)) => transformerCalls = <<>>

\* Two retried failures and a third, final one: the transformer was called
\* for attempt 3 only.
C28_Witness ==
    /\ retryPc = "fulfilled"
    /\ Len(history) = 3
    /\ Len(waits) = 2
    /\ errorTransformerOf(options) = Transformer("withAttempt")
    /\ transformerCalls = <<[error |-> ErrorValue("retryable"), attempt |-> 3]>>
    /\ FnValue(history[1]) = StringValue("string error")

\* C29: shouldRetry is invoked only after a failed attempt n with
\* n < maxRetries + 1, with the raw failure of attempt n and with n as the
\* 1-based attempt number; never after the last permitted attempt nor after
\* a success, hence at most maxRetries times per call.
C29_PredicateCalls ==
    /\ \A i \in 1..Len(shouldRetryCalls) :
         /\ shouldRetryCalls[i].attempt = i
         /\ i <= Len(history)
         /\ FnFails(history[i])
         /\ shouldRetryCalls[i].error = FnValue(history[i])
         /\ i < maxRetriesOf(options) + 1
    /\ maxRetriesOf(options) >= 0 => Len(shouldRetryCalls) <= maxRetriesOf(options)
    /\ (history # <<>> /\ FnSucceeds(LastAttempt)) => Len(shouldRetryCalls) < Len(history)

\* The predicate of the tests (attempt <= 1) was asked after attempts 1 and
\* 2 of a budget of 2 retries, and not after a later attempt.
C29_Witness ==
    /\ retryPc = "fulfilled"
    /\ shouldRetryOf(options) = "attemptAtMost1"
    /\ maxRetriesOf(options) = 2
    /\ Len(shouldRetryCalls) = 2
    /\ shouldRetryCalls[2] = [error |-> StringValue("string error"), attempt |-> 2]
    /\ Len(history) = 2

\* C30: if the errorTransformer option throws when neatCatchRetry stops with
\* a failure, the call still fulfils: the outcome is (null, aggregate), the
\* aggregate bundling, in this order, the raw failure of the terminating
\* attempt and the transformer's own failure.
C30_ThrowingOptionTransformer ==
    (transformerCalls # <<>> /\ errorTransformerOf(options) = Transformer("throws")) =>
        /\ retryPc = "fulfilled"
        /\ retryOutcome =
             Tuple(NULL, AggregateError(<<FnValue(LastAttempt), TransformerFailure>>))
        /\ FnFails(LastAttempt)

\* The throwing transformer was called for the failure of attempt 2.
C30_Witness ==
    /\ retryPc = "fulfilled"
    /\ errorTransformerOf(options) = Transformer("throws")
    /\ transformerCalls = <<[error |-> ErrorValue("non-retryable"), attempt |-> 2]>>
    /\ retryOutcome =
         Tuple(NULL, AggregateError(<<ErrorValue("non-retryable"), TransformerFailure>>))

-----------------------------------------------------------------------------
(* Further properties of neatCatchAll *)

\* The operations that throw synchronously when invoked.
ThrowingIndices == {i \in DOMAIN operations : operations[i].type = "throw"}

\* C31: in neatCatchAll an operation that throws synchronously while being
\* started is recorded as a failure at its own index, errors[i] being its
\* transformed failure; the operations after it are still started and the
\* operations started before it are not aborted.
C31_SyncThrowIsolated ==
    ThrowingIndices # {} =>
        /\ allPc # "rejected"
        /\ allPc \in {"awaiting", "fulfilled"} => Len(started) = NumOperations
        /\ allPc = "fulfilled" =>
             /\ \A j \in DOMAIN operations : settled[j].status = "fulfilled"
             /\ \A j \in DOMAIN operations \ ThrowingIndices :
                  settled[j].value = OperationTuple(j)
             /\ \A i \in ThrowingIndices :
                  /\ Populated(allReturn.errors, i)
                  /\ allReturn.errors.elems[i] = OperationTuple(i).error
                  /\ ~Populated(allReturn.results, i)

SucceededIndices == {i \in DOMAIN operations : FnSucceeds(operations[i])}
FailedIndices == {i \in DOMAIN operations : FnFails(operations[i])}

\* C32: in the value neatCatchAll returns, a non-null results has length
\* 1 + the largest index of a successful operation and a non-null errors
\* has length 1 + the largest index of a failed operation; the slots of the
\* other kind below that index are unset.  For [success, failure, failure]
\* results has length 1 and errors has length 3, errors[1] and errors[2]
\* being the two failures.
C32_SparseLengths ==
    allPc = "fulfilled" =>
        /\ allReturn.results # NULL =>
             /\ SucceededIndices # {}
             /\ Length(allReturn.results.elems) = 1 + Max(SucceededIndices)
             /\ DOMAIN allReturn.results.elems = SucceededIndices
        /\ allReturn.errors # NULL =>
             /\ FailedIndices # {}
             /\ Length(allReturn.errors.elems) = 1 + Max(FailedIndices)
             /\ DOMAIN allReturn.errors.elems = FailedIndices

-----------------------------------------------------------------------------
(* Dispatch of neatCatch *)

\* Whether a value has a member `name` that is callable.
HasCallable(value, name) == name \in DOMAIN value /\ value[name] = "function"

\* C33: neatCatch treats the operation's return value as awaitable exactly
\* when it is a built-in promise or exposes both a callable then and a
\* callable catch; any other return value, an object with then but without
\* catch included, is returned synchronously as the outcome (value, null).
C33_AwaitableDispatch ==
    (fn.type = "normal" /\ ncPc # "ready") =>
        IF fn.value.type = "Promise"
           \/ (HasCallable(fn.value, "then") /\ HasCallable(fn.value, "catch"))
        THEN /\ ncPc \in {"pending", "fulfilled"}
             /\ ncResult = fn.value
        ELSE /\ ncPc = "returned"
             /\ ncOutcome = Tuple(fn.value, NULL)

\* An object with then but without catch came back as a plain value.
C33_Witness ==
    /\ fn = Normal(ThenOnlyObject)
    /\ ncPc = "returned"
    /\ ncOutcome = Tuple(ThenOnlyObject, NULL)

-----------------------------------------------------------------------------
(* Termination of neatCatchRetry *)

\* C34: when every invocation of fn settles, every backoff timer fires and
\* shouldRetry and errorTransformer return, the awaitable neatCatchRetry
\* returned is eventually fulfilled, after at most maxRetries + 1 attempts;
\* and the call does not return while an invocation of fn has not settled.
C34_Terminates ==
    /\ shouldRetryOf(options) # "throws" =>
         <>(retryPc = "fulfilled" /\ retryFnCalls <= maxRetriesOf(options) + 1)
    /\ [][retryPc = "awaitingFn" =>
            (retryPc' = "awaitingFn" \/ Len(history') = Len(history) + 1)]_vars

\* A run of three attempts and two fired timers has fulfilled.
C34_Witness ==
    /\ retryPc = "fulfilled"
    /\ shouldRetryOf(options) # "throws"
    /\ maxRetriesOf(options) = 2
    /\ retryFnCalls = 3
    /\ timersFired = 2
    /\ Len(history) = 3

-----------------------------------------------------------------------------
(* Termination of neatCatchAll *)

\* C35: the awaitable neatCatchAll returns never rejects, whether the
\* operations succeed, reject or throw synchronously and whatever the
\* transformer does, and when every operation settles it is eventually
\* fulfilled with a { results, errors } value.
C35_AllFulfils ==
    /\ [](allPc # "rejected")
    /\ <>(allPc = "fulfilled" /\ DOMAIN allReturn = {"results", "errors"})

\* Fulfilled after a synchronous throw and a rejection, with a throwing transformer.
C35_Witness ==
    /\ allPc = "fulfilled"
    /\ errorTransformer = Transformer("throws")
    /\ NumOperations = 3
    /\ operations[0].type = "throw"
    /\ operations[1] = Normal(PromiseOf("reject", ErrorValue("boom")))
    /\ FnSucceeds(operations[2])
    /\ Length(allReturn.errors.elems) = 2

-----------------------------------------------------------------------------
(* Waits of neatCatchRetry *)

-----------------------------------------------------------------------------
(* Invocation counts *)

\* C37: one call of neatCatch invokes the operation exactly once, and
\* invokes the transformer at most once and only if the operation failed;
\* on success the transformer is never invoked.
C37_NeatCatchInvocations ==
    /\ ncPc \notin {"idle", "ready"} => ncFnCalls = 1
    /\ ncFnCalls <= 1
    /\ ncTransformerCalls <= 1
    /\ ncTransformerCalls = 1 => (FnFails(fn) /\ errorTransformer # NoTransformer)
    /\ FnSucceeds(fn) => ncTransformerCalls = 0
    /\ ncPc = "pending" => ncTransformerCalls = 0

\* A promise fulfilled with the transformer supplied and never invoked.
C37_Witness ==
    /\ ncPc = "fulfilled"
    /\ fn = Normal(PromiseOf("fulfil", ObjectValue("{id:1}")))
    /\ errorTransformer = Transformer("toString")
    /\ ncFnCalls = 1
    /\ ncTransformerCalls = 0

\* C38: in one neatCatchAll call each operation is invoked exactly once, and
\* the error transformer is invoked exactly once for each failed operation
\* and never for a successful one: a failure transformed by the conversion
\* of its operation is not transformed again during result assembly.
C38_AllInvocations ==
    /\ \A k \in 1..Len(started) : started[k] = k - 1
    /\ Len(started) <= NumOperations
    /\ \A i \in DOMAIN operations :
         /\ allTransformerCalls[i] <= 1
         /\ FnSucceeds(operations[i]) => allTransformerCalls[i] = 0
    /\ allPc = "fulfilled" =>
         /\ Len(started) = NumOperations
         /\ \A i \in DOMAIN operations :
              FnFails(operations[i]) =>
                  allTransformerCalls[i] = transformErrorCalls(errorTransformer)

\* Two failed operations and a successful one with the toString transformer.
C38_Witness ==
    /\ allPc = "fulfilled"
    /\ errorTransformer = Transformer("toString")
    /\ NumOperations = 3
    /\ allTransformerCalls = (0 :> 1) @@ (1 :> 0) @@ (2 :> 1)
    /\ operations[0].type = "throw"
    /\ operations[2] = Normal(PromiseOf("reject", NULL))
    /\ allReturn.errors.elems[2] = StringValue("null")

-----------------------------------------------------------------------------
(* neatCatchRetry outside the declared domain of maxRetries *)

-----------------------------------------------------------------------------
(* Absent marker of neatCatchAll *)

\* C40: for an empty operation list neatCatchAll fulfils with results and
\* errors both null; in general results is null iff no index of results was
\* populated, and errors is null iff no index of errors was populated.
C40_NullIffNothingPopulated ==
    allPc = "fulfilled" =>
        /\ NumOperations = 0 => (allReturn.results = NULL /\ allReturn.errors = NULL)
        /\ allReturn.results = NULL <=> DOMAIN ExpectedResults = {}
        /\ allReturn.errors = NULL <=> DOMAIN ExpectedErrors = {}
        /\ allReturn.results # NULL => DOMAIN allReturn.results.elems = DOMAIN ExpectedResults
        /\ allReturn.errors # NULL => DOMAIN allReturn.errors.elems = DOMAIN ExpectedErrors

\* The empty operation list.
C40_Witness ==
    /\ allPc = "fulfilled"
    /\ operations = EmptyArray
    /\ started = <<>>
    /\ allReturn = [results |-> NULL, errors |-> NULL]

====
